---- MODULE Spec2Model ----
(***************************************************************************)
(* Model of src/src/gui.py: the PhotoCollageApp window (UI thread), its    *)
(* folder validator update_dimension_label, and the CollageWorker threads   *)
(* whose signals reach the UI thread through Qt's queued connections.       *)
(***************************************************************************)
EXTENDS Integers, Sequences, FiniteSets, TLC

\* ---------------------------------------------------------------- bounds
\* Number of CollageWorker objects a behaviour may construct.
MaxBuilds == 2
\* Largest number of directory entries of a listing drawn by InitV.
MaxFiles == 10
\* Largest index of size_dropdown the user picks.
MaxPickIdx == 4
\* Largest grid dimension and tile size (in pixels) the Collage Builder is run on.
MaxDim == 2
MaxTile == 3

\* ------------------------------------------------------- value encodings
\* self.dimension = None
None == -1
\* the attribute self.dimension has never been assigned
Unset == -2
\* self.generated_collage = None / self.worker not yet assigned
NoCollage == 0
NoWorker == 0

\* ------------------------------------------------------------- strings
\* A Python str is a tuple of one-character strings.
UpperChars == <<"A","B","C","D","E","F","G","H","I","J","K","L","M",
                "N","O","P","Q","R","S","T","U","V","W","X","Y","Z">>
LowerChars == <<"a","b","c","d","e","f","g","h","i","j","k","l","m",
                "n","o","p","q","r","s","t","u","v","w","x","y","z">>

\* the lower-case letter of every upper-case letter
ToLower ==
    [c \in {UpperChars[i] : i \in 1..Len(UpperChars)} |->
        LowerChars[CHOOSE i \in 1..Len(UpperChars) : UpperChars[i] = c]]

lower_char(c) == IF c \in DOMAIN ToLower THEN ToLower[c] ELSE c

\* str.lower()
lower(s) == [i \in 1..Len(s) |-> lower_char(s[i])]

\* str.endswith(suffix) for one suffix
endswith1(s, suffix) ==
    /\ Len(suffix) <= Len(s)
    /\ SubSeq(s, Len(s) - Len(suffix) + 1, Len(s)) = suffix

\* str.endswith(tuple_of_suffixes)
endswith(s, suffixes) == \E k \in 1..Len(suffixes) : endswith1(s, suffixes[k])

valid_extensions ==
    << <<".","j","p","g">>, <<".","j","p","e","g">>, <<".","p","n","g">>,
       <<".","g","i","f">>, <<".","b","m","p">>, <<".","w","e","b","p">> >>

\* the filter of the list comprehension in update_dimension_label
\* (is_image_cs: the same filter without lower())
is_image_cs(f) == endswith(f, valid_extensions)
is_image(f) == endswith(lower(f), valid_extensions)

\* math.isqrt: the floor of the square root
isqrt(n) == CHOOSE d \in 0..n : (d * d <= n) /\ ((d + 1) * (d + 1) > n)

\* str(i) and int(s) on decimal numerals
Digits == <<"0","1","2","3","4","5","6","7","8","9">>
RECURSIVE str(_)
str(n) == IF n < 10 THEN << Digits[n + 1] >>
          ELSE Append(str(n \div 10), Digits[(n % 10) + 1])
digit_value(c) == (CHOOSE i \in 1..10 : Digits[i] = c) - 1
RECURSIVE int(_)
int(s) == IF Len(s) = 0 THEN 0
          ELSE 10 * int(SubSeq(s, 1, Len(s) - 1)) + digit_value(s[Len(s)])

\* size_dropdown.addItems([str(i) for i in range(100, 1100, 100)])
\* (size_items_from_zero: the items of range(0, 1000, 100))
size_items_from_zero == [k \in 1..10 |-> str(100 * (k - 1))]
size_items == [k \in 1..10 |-> str(100 * k)]
\* size_dropdown.setCurrentIndex(3)
DefaultIndex == 3
currentText(idx) == size_items[idx + 1]

\* ---------------------------------------------------------- file system
FileNames ==
    { <<"a",".","j","p","g">>,         <<"b",".","J","P","G">>,
      <<"c",".","j","p","e","g">>,     <<"d",".","P","n","g">>,
      <<"e",".","g","i","f">>,         <<"f",".","b","m","p">>,
      <<"g",".","W","e","b","P">>,     <<"k",".","J","P","E","G">>,
      <<"m",".","p","n","g">>,
      <<"h",".","t","x","t">>,         <<"j","p","g">>,
      <<"i",".","j","p","g",".","b","a","k">> }

Dirs == {"d4", "d5"}
Missing == "nowhere"
Paths == Dirs \cup {Missing}

\* The directory tree of the main specification: four images and a text file
\* in d4, five images and a backup file in d5.
DefaultFs ==
    [d \in Dirs |->
        IF d = "d4"
        THEN { <<"a",".","j","p","g">>, <<"b",".","J","P","G">>,
               <<"c",".","j","p","e","g">>, <<"d",".","P","n","g">>,
               <<"h",".","t","x","t">> }
        ELSE { <<"a",".","j","p","g">>, <<"e",".","g","i","f">>,
               <<"f",".","b","m","p">>, <<"g",".","W","e","b","P">>,
               <<"m",".","p","n","g">>,
               <<"i",".","j","p","g",".","b","a","k">> }]

AllListings == {l \in SUBSET FileNames : Cardinality(l) <= MaxFiles}

\* ---------------------------------------------------------------- state
VARIABLES
    fs,                \* directory -> set of entry names (os.listdir)
    folder_text,       \* self.folder_path.text()
    size_index,        \* self.size_dropdown.currentIndex()
    dimension,         \* self.dimension
    dimension_label,   \* self.dimension_label text
    final_size_label,  \* self.final_size_label text
    create_text,       \* self.create_button text
    create_enabled,    \* self.create_button.isEnabled()
    save_enabled,      \* self.save_button.isEnabled()
    generated_collage, \* self.generated_collage (id of the build that made it)
    preview,           \* pixmap shown by self.preview_label
    output,            \* content of the file at self.output_path.text()
    msgbox,            \* the QMessageBox the last step showed ("none": it showed none)
    worker,            \* self.worker
    workers,           \* every CollageWorker constructed so far
    queue,             \* queued signal deliveries posted to the UI thread
    validated,         \* argument of the last update_dimension_label call
    crashed,           \* the process has aborted
    builder            \* the Collage Builder at work inside create_collage

vars == << fs, folder_text, size_index, dimension, dimension_label,
           final_size_label, create_text, create_enabled, save_enabled,
           generated_collage, preview, output, msgbox, worker, workers,
           queue, validated, crashed, builder >>

\* the state of the window and its workers
AppVars == << fs, folder_text, size_index, dimension, dimension_label,
              final_size_label, create_text, create_enabled, save_enabled,
              generated_collage, preview, output, msgbox, worker, workers,
              queue, validated, crashed >>

WorkerIds == 1..MaxBuilds

\* label texts
LblNoValidDir == [kind |-> "NoValidDirectory", dim |-> 0, n |-> 0]
LblNoImages == [kind |-> "NoImagesFound", dim |-> 0, n |-> 0]
LblGrid(dim, n) == [kind |-> "Grid", dim |-> dim, n |-> n]
LblNotSquare(n) == [kind |-> "NotPerfectSquare", dim |-> 0, n |-> n]
SizeUnknown == [kind |-> "Unknown", v |-> 0]
SizeOf(v) == [kind |-> "Size", v |-> v]

\* ------------------------------------------------------ folder validator
\* update_final_size_label, for a dimension that is not None
final_size_text(idx, dim) == SizeOf(int(currentText(idx)) * dim)

\* update_dimension_label(folder_path): the values it assigns
\* (update_dimension_label_nozero: the same without the num_images == 0 branch)
update_dimension_label_nozero(files, idx) ==
    LET images == {f \in files : is_image(f)}
        num_images == Cardinality(images)
        dim == isqrt(num_images)
    IN  IF dim * dim = num_images
        THEN [dimension |-> dim,
              dimension_label |-> LblGrid(dim, num_images),
              final_size_label |-> final_size_text(idx, dim),
              create_enabled |-> TRUE]
        ELSE [dimension |-> None,
              dimension_label |-> LblNotSquare(num_images),
              final_size_label |-> SizeUnknown,
              create_enabled |-> FALSE]

update_dimension_label(files, idx) ==
    LET images == {f \in files : is_image(f)}
        num_images == Cardinality(images)
        dim == isqrt(num_images)
    IN  IF num_images = 0
        THEN [dimension |-> None,
              dimension_label |-> LblNoImages,
              final_size_label |-> SizeUnknown,
              create_enabled |-> FALSE]
        ELSE IF dim * dim = num_images
        THEN [dimension |-> dim,
              dimension_label |-> LblGrid(dim, num_images),
              final_size_label |-> final_size_text(idx, dim),
              create_enabled |-> TRUE]
        ELSE [dimension |-> None,
              dimension_label |-> LblNotSquare(num_images),
              final_size_label |-> SizeUnknown,
              create_enabled |-> FALSE]

\* ------------------------------------------------------------- workers
Signals == {"started", "collage_created", "error_occurred", "finished"}

\* a slot of workers that holds no CollageWorker yet
NoWorkerRec ==
    [pc |-> "none", folder_path |-> "", size_value |-> 0, dimension |-> None,
     validated_for |-> "", args |-> <<>>, outcome |-> "pending",
     emitted |-> <<>>, handled |-> <<>>]

\* CollageWorker.__init__(folder_path, size_value, dimension), then start()
CollageWorker(folder_path, size_value, dim) ==
    [pc |-> "start", folder_path |-> folder_path, size_value |-> size_value,
     dimension |-> dim, validated_for |-> validated, args |-> <<>>,
     outcome |-> "pending", emitted |-> <<>>, handled |-> <<>>]

\* the arguments run() passes to create_collage
\* (create_collage_args_shared: read from the window instead of the worker)
create_collage_args_shared(w) == << folder_text, workers[w].size_value, dimension >>
create_collage_args(w) ==
    << workers[w].folder_path, workers[w].size_value, workers[w].dimension >>

\* the signal run() emits for an outcome of create_collage
\* (result_signals_both: collage_created emitted before the call can raise)
result_signals_both(ok) ==
    IF ok THEN << "collage_created" >> ELSE << "collage_created", "error_occurred" >>
result_signals(ok) ==
    IF ok THEN << "collage_created" >> ELSE << "error_occurred" >>

Post(w, sigs) == queue \o [i \in 1..Len(sigs) |-> [w |-> w, sig |-> sigs[i]]]

\* ------------------------------------------------------- Collage Builder
\* create_collage(folder_path, size_value, dimension) of photo_collage, as
\* section 4.2 of the specification describes it.  A pixel of the canvas
\* holds the image whose tile was pasted over it, 0 while it is blank.
Blank == 0
Pixels(d, s) == (0..(d * s - 1)) \X (0..(d * s - 1))
new_canvas(d, s) == [p \in Pixels(d, s) |-> Blank]

IdleBuilder ==
    [status |-> "idle", dimension |-> 0, tile_size |-> 0, images |-> <<>>,
     k |-> 0, canvas |-> new_canvas(0, 0)]

\* step 4: the canvas position of the k-th tile
\* (tile_position_colmajor: rows and columns exchanged)
tile_position_colmajor(k, d, s) == << (k \div d) * s, (k % d) * s >>
tile_position(k, d, s) == << (k % d) * s, (k \div d) * s >>

\* pasting an s x s tile of image img at pos
paste(canvas, img, pos, s) ==
    [p \in DOMAIN canvas |->
        IF /\ pos[1] <= p[1] /\ p[1] < pos[1] + s
           /\ pos[2] <= p[2] /\ p[2] < pos[2] + s
        THEN img ELSE canvas[p]]

\* steps 1 and 3: the files are enumerated and the canvas is allocated
start_build(d, s, images) ==
    [status |-> "building", dimension |-> d, tile_size |-> s,
     images |-> images, k |-> 0, canvas |-> new_canvas(d, s)]

\* a failure discards the canvas
failed_build(b) == [b EXCEPT !.status = "failed", !.canvas = new_canvas(0, 0)]

\* the defensive re-check: CountMismatch
count_mismatch ==
    /\ builder.status = "building"
    /\ Len(builder.images) # builder.dimension * builder.dimension
    /\ builder' = failed_build(builder)
    /\ UNCHANGED AppVars

\* steps 2 and 4 for the next file: it is loaded (loaded = FALSE:
\* ImageLoadError), resized and pasted; after the last one the canvas is
\* returned
place_tile(loaded) ==
    /\ builder.status = "building"
    /\ Len(builder.images) = builder.dimension * builder.dimension
    /\ builder.k < Len(builder.images)
    /\ IF loaded
       THEN builder' =
              [builder EXCEPT
                 !.canvas = paste(@, builder.images[builder.k + 1],
                                  tile_position(builder.k, builder.dimension,
                                                builder.tile_size),
                                  builder.tile_size),
                 !.k = @ + 1,
                 !.status = IF builder.k + 1 = Len(builder.images)
                            THEN "done" ELSE "building"]
       ELSE builder' = failed_build(builder)
    /\ UNCHANGED AppVars

\* ----------------------------------------------------------------- Init
\* PhotoCollageApp.__init__ for a directory tree f and a default folder text
\* p: init_ui, generated_collage = None, check_default_folder.
InitWith(f, p) ==
    /\ fs = f
    /\ folder_text = p
    /\ size_index = DefaultIndex
    /\ create_text = "Generate Preview"
    /\ save_enabled = FALSE
    /\ generated_collage = NoCollage
    /\ preview = NoCollage
    /\ output = NoCollage
    /\ msgbox = "none"
    /\ worker = NoWorker
    /\ workers = [w \in WorkerIds |-> NoWorkerRec]
    /\ queue = <<>>
    /\ crashed = FALSE
    /\ IF p \in Dirs
       THEN LET r == update_dimension_label(f[p], DefaultIndex)
            IN  /\ dimension = r.dimension
                /\ dimension_label = r.dimension_label
                /\ final_size_label = r.final_size_label
                /\ create_enabled = r.create_enabled
                /\ validated = p
       ELSE /\ dimension = Unset
            /\ dimension_label = LblNoValidDir
            /\ final_size_label = SizeUnknown
            /\ create_enabled = TRUE
            /\ validated = ""

Init ==
    /\ \E p \in Paths : InitWith(DefaultFs, p)
    /\ builder = IdleBuilder

\* ------------------------------------------------------------ UI actions
\* browse_folder, the dialog returning folder_selected
browse_folder(folder_selected) ==
    /\ ~crashed
    /\ folder_text' = folder_selected
    /\ validated' = folder_selected
    /\ LET r == update_dimension_label(fs[folder_selected], size_index)
       IN  /\ dimension' = r.dimension
           /\ dimension_label' = r.dimension_label
           /\ final_size_label' = r.final_size_label
           /\ create_enabled' = r.create_enabled
    /\ msgbox' = "none"
    /\ UNCHANGED << fs, builder, size_index, create_text, save_enabled,
                    generated_collage, preview, output, worker,
                    workers, queue, crashed >>

\* the user types another path into the folder_path QLineEdit
edit_folder_path(p) ==
    /\ ~crashed
    /\ p # folder_text
    /\ folder_text' = p
    /\ msgbox' = "none"
    /\ UNCHANGED << fs, builder, size_index, dimension, dimension_label,
                    final_size_label, create_text, create_enabled,
                    save_enabled, generated_collage, preview, output, worker, workers, queue, validated, crashed >>

PickIdx == DefaultIndex..(IF MaxPickIdx < 9 THEN MaxPickIdx ELSE 9)

\* (change_size_nolabel: the index changes with no slot connected)
change_size_nolabel(idx) ==
    /\ ~crashed
    /\ idx # size_index
    /\ size_index' = idx
    /\ msgbox' = "none"
    /\ UNCHANGED << fs, builder, folder_text, dimension, dimension_label,
                    final_size_label, create_text, create_enabled,
                    save_enabled, generated_collage, preview, output, worker,
                    workers, queue, validated, crashed >>

\* size_dropdown.currentIndexChanged -> update_final_size_label
change_size(idx) ==
    /\ ~crashed
    /\ idx # size_index
    /\ size_index' = idx
    /\ IF dimension = Unset
       THEN \* AttributeError in a slot: PyQt aborts the process
            /\ crashed' = TRUE
            /\ UNCHANGED final_size_label
       ELSE /\ crashed' = FALSE
            /\ IF dimension # None
               THEN final_size_label' = final_size_text(idx, dimension)
               ELSE UNCHANGED final_size_label
    /\ msgbox' = "none"
    /\ UNCHANGED << fs, builder, folder_text, dimension, dimension_label, create_text,
                    create_enabled, save_enabled, generated_collage, preview,
                    output, worker, workers, queue, validated >>

UiFrame == << fs, builder, folder_text, size_index, dimension_label, final_size_label,
              create_text, create_enabled, save_enabled, generated_collage,
              preview, output, validated >>

\* preview_collage once both checks have passed (lines 244-250): construct a
\* CollageWorker, bind it to self.worker and start it.  Rebinding self.worker
\* drops the last reference to the previous worker: its QThread is destroyed,
\* which aborts the process when that thread is still running outside run().
start_worker ==
    /\ \E w \in WorkerIds :
        /\ workers[w].pc = "none"
        /\ \A v \in WorkerIds : v < w => workers[v].pc # "none"
        /\ LET size_value == int(currentText(size_index))
               old == IF worker = NoWorker THEN "none" ELSE workers[worker].pc
           IN  \/ /\ old \in {"start", "returned"}
                  /\ crashed' = TRUE
                  /\ UNCHANGED << worker, workers >>
               \/ /\ old # "start"
                  /\ crashed' = FALSE
                  /\ worker' = w
                  /\ workers' = [workers EXCEPT
                        ![w] = CollageWorker(folder_text, size_value, dimension)]
    /\ msgbox' = "none"
    /\ UNCHANGED << UiFrame, dimension, queue >>

\* (preview_collage_unchecked: preview_collage without the test of lines 239-242)
preview_collage_unchecked ==
    /\ ~crashed
    /\ create_enabled
    /\ IF folder_text \notin Dirs
       THEN /\ msgbox' = "FolderDoesNotExist"
            /\ UNCHANGED << UiFrame, dimension, worker, workers, queue, crashed >>
       ELSE IF dimension = Unset
       THEN /\ crashed' = TRUE
            /\ msgbox' = "none"
            /\ UNCHANGED << UiFrame, dimension, worker, workers, queue >>
       ELSE start_worker

\* create_button.clicked -> preview_collage
preview_collage ==
    /\ ~crashed
    /\ create_enabled
    /\ IF folder_text \notin Dirs
       THEN /\ msgbox' = "FolderDoesNotExist"
            /\ UNCHANGED << UiFrame, dimension, worker, workers, queue, crashed >>
       ELSE IF dimension = Unset
       THEN \* AttributeError in a slot: PyQt aborts the process
            /\ crashed' = TRUE
            /\ msgbox' = "none"
            /\ UNCHANGED << UiFrame, dimension, worker, workers, queue >>
       ELSE IF dimension = None
       THEN /\ msgbox' = "InvalidFolder"
            /\ UNCHANGED << UiFrame, dimension, worker, workers, queue, crashed >>
       ELSE start_worker

\* (save_collage_nocheck: save_collage without the test of lines 276-279)
save_collage_nocheck(ok) ==
    /\ ~crashed
    /\ save_enabled
    /\ IF ok
       THEN /\ output' = generated_collage
            /\ msgbox' = "Saved"
       ELSE /\ msgbox' = "SaveError"
            /\ UNCHANGED output
    /\ UNCHANGED << fs, builder, folder_text, size_index, dimension,
                    dimension_label, final_size_label, create_text,
                    create_enabled, save_enabled, generated_collage, preview,
                    worker, workers, queue, validated, crashed >>

\* save_button.clicked -> save_collage; ok: the write succeeds
save_collage(ok) ==
    /\ ~crashed
    /\ save_enabled
    /\ IF generated_collage = NoCollage
       THEN /\ msgbox' = "NoCollageToSave"
            /\ UNCHANGED output
       ELSE IF ok
       THEN /\ output' = generated_collage
            /\ msgbox' = "Saved"
       ELSE /\ msgbox' = "SaveError"
            /\ UNCHANGED output
    /\ UNCHANGED << fs, builder, folder_text, size_index, dimension, dimension_label,
                    final_size_label, create_text, create_enabled, save_enabled,
                    generated_collage, preview, worker, workers, queue,
                    validated, crashed >>

\* --------------------------------------------------------- worker thread
\* QThread.start(): the new thread emits started and enters run()
worker_begin(w) ==
    /\ ~crashed
    /\ workers[w].pc = "start"
    /\ workers' = [workers EXCEPT ![w].pc = "run",
                                  ![w].emitted = Append(@, "started")]
    /\ queue' = Post(w, << "started" >>)
    /\ msgbox' = "none"
    /\ UNCHANGED << UiFrame, dimension, worker, crashed >>

\* CollageWorker.run: create_collage returns (ok) or raises, the result is
\* emitted and run returns.  A worker that self.worker no longer references
\* loses its last reference here and its QThread is destroyed while the
\* thread may still be running (abort).
run(w, ok, abort) ==
    /\ ~crashed
    /\ workers[w].pc = "run"
    /\ abort => w # worker
    /\ crashed' = abort
    /\ workers' = [workers EXCEPT
          ![w].pc = "returned",
          ![w].args = create_collage_args(w),
          ![w].outcome = IF ok THEN "ok" ELSE "error",
          ![w].emitted = @ \o result_signals(ok)]
    /\ queue' = Post(w, result_signals(ok))
    /\ msgbox' = "none"
    /\ UNCHANGED << UiFrame, dimension, worker >>

\* the thread terminates: finished is emitted
worker_finish(w) ==
    /\ ~crashed
    /\ workers[w].pc = "returned"
    /\ workers' = [workers EXCEPT ![w].pc = "done",
                                  ![w].emitted = Append(@, "finished")]
    /\ queue' = Post(w, << "finished" >>)
    /\ msgbox' = "none"
    /\ UNCHANGED << UiFrame, dimension, worker, crashed >>

\* ------------------------------------------------- queued slots (UI thread)
Deliver(sig) ==
    /\ ~crashed
    /\ queue # <<>>
    /\ Head(queue).sig = sig
    /\ queue' = Tail(queue)
    /\ workers' = [workers EXCEPT ![Head(queue).w].handled = Append(@, sig)]

on_worker_started ==
    /\ Deliver("started")
    /\ create_text' = "Generating..."
    /\ create_enabled' = FALSE
    /\ save_enabled' = FALSE
    /\ msgbox' = "none"
    /\ UNCHANGED << fs, builder, folder_text, size_index, dimension, dimension_label,
                    final_size_label, generated_collage, preview, output,
                    worker, validated, crashed >>

\* The finished slot ends a build: nothing reads the worker's parameters
\* afterwards, and its record keeps only the outcome and the signal logs.
on_worker_finished ==
    /\ ~crashed
    /\ queue # <<>>
    /\ Head(queue).sig = "finished"
    /\ queue' = Tail(queue)
    /\ workers' = [workers EXCEPT ![Head(queue).w] =
                      [NoWorkerRec EXCEPT
                          !.pc = "retired",
                          !.outcome = workers[Head(queue).w].outcome,
                          !.emitted = workers[Head(queue).w].emitted,
                          !.handled = Append(workers[Head(queue).w].handled,
                                             "finished")]]
    /\ create_text' = "Generate Preview"
    /\ create_enabled' = TRUE
    /\ save_enabled' = TRUE
    /\ msgbox' = "none"
    /\ UNCHANGED << fs, builder, folder_text, size_index, dimension, dimension_label,
                    final_size_label, generated_collage, preview, output,
                    worker, validated, crashed >>

on_collage_created ==
    /\ Deliver("collage_created")
    /\ generated_collage' = Head(queue).w
    /\ preview' = Head(queue).w
    /\ msgbox' = "none"
    /\ UNCHANGED << fs, builder, folder_text, size_index, dimension, dimension_label,
                    final_size_label, create_text, create_enabled,
                    save_enabled, output, worker, validated, crashed >>

\* (on_error_occurred_clearing: an error slot that also resets the result)
on_error_occurred_clearing ==
    /\ Deliver("error_occurred")
    /\ msgbox' = "BuildError"
    /\ generated_collage' = NoCollage
    /\ preview' = Head(queue).w
    /\ UNCHANGED << fs, builder, folder_text, size_index, dimension, dimension_label,
                    final_size_label, create_text, create_enabled,
                    save_enabled, output, worker, validated, crashed >>

on_error_occurred ==
    /\ Deliver("error_occurred")
    /\ msgbox' = "BuildError"
    /\ UNCHANGED << fs, builder, folder_text, size_index, dimension, dimension_label,
                    final_size_label, create_text, create_enabled,
                    save_enabled, generated_collage, preview, output, worker,
                    validated, crashed >>

\* ------------------------------------------------------- specifications
WorkerStep ==
    \/ \E w \in WorkerIds : worker_begin(w)
    \/ \E w \in WorkerIds, ok \in BOOLEAN, abort \in BOOLEAN : run(w, ok, abort)
    \/ \E w \in WorkerIds : worker_finish(w)

SlotStep ==
    \/ on_worker_started
    \/ on_collage_created
    \/ on_error_occurred
    \/ on_worker_finished

Next ==
    \/ \E d \in Dirs : browse_folder(d)
    \/ \E p \in Paths : edit_folder_path(p)
    \/ \E idx \in PickIdx : change_size(idx)
    \/ preview_collage
    \/ \E ok \in BOOLEAN : save_collage(ok)
    \/ WorkerStep
    \/ SlotStep

Spec == Init /\ [][Next]_vars

\* The worker threads run and the UI event loop dispatches queued slots.
FairSpec == Spec /\ WF_vars(WorkerStep) /\ WF_vars(SlotStep)

\* The validator on every listing of at most MaxFiles entries.
InitV ==
    \E l \in AllListings, p \in Paths :
        /\ InitWith([DefaultFs EXCEPT !["d4"] = l], p)
        /\ builder = IdleBuilder

NextV ==
    \/ \E d \in Dirs : browse_folder(d)
    \/ \E p \in Paths : edit_folder_path(p)

SpecV == InitV /\ [][NextV]_vars

\* The resolution control over all of its items, up to the start of a build.
AllIdx == 0..(Len(size_items) - 1)

NextR ==
    \/ \E d \in Dirs : browse_folder(d)
    \/ \E idx \in AllIdx : change_size(idx)
    \/ preview_collage

SpecR == Init /\ [][NextR]_vars

\* The Collage Builder on every grid of at most MaxDim x MaxDim tiles of at
\* most MaxTile pixels, for the enumeration orders of Enumerations.
RECURSIVE Rotate(_, _)
Rotate(seq, r) == IF r = 0 \/ seq = <<>> THEN seq
                  ELSE Rotate(Append(Tail(seq), Head(seq)), r - 1)
Reverse(seq) == [i \in 1..Len(seq) |-> seq[Len(seq) + 1 - i]]
Enumerations(n) ==
    LET ids == [i \in 1..n |-> i]
    IN  {Rotate(ids, r) : r \in 0..n} \cup {Reverse(Rotate(ids, r)) : r \in 0..n}

InitT ==
    /\ InitWith(DefaultFs, Missing)
    /\ \E d \in 1..MaxDim, s \in 1..MaxTile :
         \E n \in {d * d - 1, d * d} :
            \E images \in Enumerations(n) : builder = start_build(d, s, images)

NextT ==
    \/ count_mismatch
    \/ \E loaded \in BOOLEAN : place_tile(loaded)

SpecT == InitT /\ [][NextT]_vars

\* ================================================================ claims
InFlightPcs == {"start", "run", "returned", "done"}
InFlight == {w \in WorkerIds : workers[w].pc \in InFlightPcs}
ResultSignals == {"collage_created", "error_occurred"}
NumResults(log) == Cardinality({i \in 1..Len(log) : log[i] \in ResultSignals})
IsPrefix(a, b) == Len(a) <= Len(b) /\ SubSeq(b, 1, Len(a)) = a

\* The extension of a file name: what follows its last dot, in lower case.
ExtensionOf(f) ==
    IF \E i \in 1..Len(f) : f[i] = "."
    THEN LET last == CHOOSE i \in 1..Len(f) :
                        f[i] = "." /\ \A j \in (i + 1)..Len(f) : f[j] # "."
         IN  lower(SubSeq(f, last + 1, Len(f)))
    ELSE <<>>
RecognizedExtensions ==
    { <<"j","p","g">>, <<"j","p","e","g">>, <<"p","n","g">>, <<"g","i","f">>,
      <<"b","m","p">>, <<"w","e","b","p">> }
\* n of the claims: the recognized image files of the folder last validated
RecognizedCount ==
    Cardinality({f \in fs[validated] : ExtensionOf(f) \in RecognizedExtensions})

\* C1: while a build is in flight (its worker constructed and started, its
\* finished signal not yet handled by on_worker_finished) create_button is
\* disabled and there is no second build in flight.
C1_OneBuildInFlight ==
    /\ InFlight # {} => ~create_enabled
    /\ Cardinality(InFlight) <= 1

\* C2: no step taken while dimension is None constructs a CollageWorker.
C2_NoBuildWhileNone ==
    [][dimension = None =>
         \A w \in WorkerIds : workers[w].pc = "none" => workers'[w].pc = "none"]_vars

\* Generate Preview was clicked while dimension was None and was refused.
C2_Witness == dimension = None /\ msgbox = "InvalidFolder"

\* C3: after update_dimension_label on a folder with n recognized image files,
\* dimension is d exactly when n = d*d for some d >= 1 and is None otherwise.
C3_DimensionIffSquare ==
    validated # "" =>
        LET n == RecognizedCount
        IN  IF \E d \in 1..n : d * d = n
            THEN dimension >= 1 /\ dimension * dimension = n
            ELSE dimension = None

\* A 3 x 3 folder that also holds an entry that is no image, and an image whose
\* extension is written in upper case.
C3_Witness ==
    /\ validated # ""
    /\ dimension = 3
    /\ Cardinality(fs[validated]) > 9
    /\ <<"b",".","J","P","G">> \in fs[validated]

\* C4: a folder with no recognized image file is answered with the
\* NoImagesFound message and no dimension, never with NotPerfectSquare, and
\* dimension is never 0.
C4_NoImagesFound ==
    /\ dimension # 0
    /\ (validated # "" /\ RecognizedCount = 0) =>
          /\ dimension_label.kind = "NoImagesFound"
          /\ dimension = None

\* A validated folder that holds entries, none of them an image.
C4_Witness ==
    /\ validated # ""
    /\ fs[validated] # {}
    /\ RecognizedCount = 0
    /\ dimension_label.kind = "NoImagesFound"

C6_PairConsistent ==
    \A w \in InFlight : workers[w].validated_for = workers[w].folder_path

\* C7: generated_collage and the preview change only when on_collage_created
\* stores the image of a create_collage call that succeeded; in particular
\* the slot of a failed build leaves both as they were.
C7_FailedBuildExposesNothing ==
    [][(generated_collage' # generated_collage \/ preview' # preview) =>
          /\ queue # <<>>
          /\ Head(queue).sig = "collage_created"
          /\ workers[Head(queue).w].outcome = "ok"
          /\ generated_collage' = Head(queue).w
          /\ preview' = Head(queue).w]_vars

\* The error of a failed build has just been shown while the collage of an
\* earlier build is held.
C7_Witness == msgbox = "BuildError" /\ generated_collage # NoCollage

\* C8: every started build reaches on_worker_finished: the process never stops
\* while a build is in flight.
C8_EveryBuildFinishes == InFlight # {} => ~crashed

\* C9: create_button enabled implies dimension is a valid grid dimension.
C9_OfferedOnlyWhenValid == create_enabled => dimension >= 1

\* C10: the folder path, tile size and dimension of an in-flight build stay as
\* constructed whatever the UI does, and they are what run() hands to
\* create_collage.
C10_ParametersFixed ==
    [][\A w \in WorkerIds :
          (workers[w].pc \in InFlightPcs /\ workers'[w].pc \in InFlightPcs) =>
             /\ workers'[w].folder_path = workers[w].folder_path
             /\ workers'[w].size_value = workers[w].size_value
             /\ workers'[w].dimension = workers[w].dimension
             /\ workers'[w].args # <<>> =>
                   workers'[w].args = << workers[w].folder_path,
                                         workers[w].size_value,
                                         workers[w].dimension >>]_vars

\* run() has called create_collage for a build whose folder, tile size and
\* dimension all differ from the current selection.
C10_Witness ==
    \E w \in WorkerIds :
        /\ workers[w].pc \in {"returned", "done"}
        /\ workers[w].args # <<>>
        /\ workers[w].folder_path # folder_text
        /\ workers[w].size_value # int(currentText(size_index))
        /\ workers[w].dimension # dimension

\* The tile sizes the resolution control offers.
TileSizes == {100 * k : k \in 1..10}

\* C11: the tile size given to a CollageWorker when it is constructed is one
\* of 100, 200, ..., 1000, and it is 400 when the resolution control still
\* shows the item it was initialised with.
C11_TileSizeFromFixedSet ==
    [][\A w \in WorkerIds :
          (workers[w].pc = "none" /\ workers'[w].pc = "start") =>
             /\ workers'[w].size_value \in TileSizes
             /\ size_index = DefaultIndex => workers'[w].size_value = 400]_vars

\* A build has been started with the last item of the resolution control.
C11_Witness == \E w \in InFlight : workers[w].size_value = 1000

\* C13: with a valid dimension d the final size label shows d * tileSize for
\* the tile size now selected; after a failed validation it shows Unknown.
C13_FinalSizeMatchesSelection ==
    /\ dimension >= 1 =>
          final_size_label = [kind |-> "Size", v |-> dimension * 100 * (size_index + 1)]
    /\ dimension = None => final_size_label.kind = "Unknown"

\* The last item of the resolution control was picked for a 2 x 2 folder.
C13_Witness ==
    /\ dimension = 2
    /\ size_index = 9
    /\ final_size_label.v = 2000

\* the pixel region of tile k: top-left ((k mod d)*s, (k div d)*s), extent s
Region(k, d, s) ==
    {p \in Pixels(d, s) :
        /\ p[1] \in ((k % d) * s)..((k % d) * s + s - 1)
        /\ p[2] \in ((k \div d) * s)..((k \div d) * s + s - 1)}

\* C12: in a finished collage the k-th image of the Image Set covers exactly
\* Region(k, d, s); the regions of distinct tiles are disjoint and together
\* they are the whole canvas.
C12_RowMajorTiles ==
    builder.status = "done" =>
        LET d == builder.dimension
            s == builder.tile_size
            T == 0..(d * d - 1)
        IN  /\ DOMAIN builder.canvas = Pixels(d, s)
            /\ \A k \in T :
                  {p \in Pixels(d, s) : builder.canvas[p] = builder.images[k + 1]}
                     = Region(k, d, s)
            /\ \A j, k \in T : j # k => Region(j, d, s) \cap Region(k, d, s) = {}
            /\ UNION {Region(k, d, s) : k \in T} = Pixels(d, s)

\* A 2 x 2 collage of 3-pixel tiles is finished, enumerated in an order that
\* is not the sorted one.
C12_Witness ==
    /\ builder.status = "done"
    /\ builder.dimension = 2
    /\ builder.tile_size = 3
    /\ builder.images = << 3, 4, 1, 2 >>

\* the message boxes of save_collage
SaveBoxes == {"NoCollageToSave", "Saved", "SaveError"}

\* C14: the output file changes only when save_collage writes a generated
\* collage; with no collage save_collage writes nothing and reports the error;
\* a failing write leaves generated_collage and the controls as they were,
\* with the save control still enabled.
C14_SaveOnlyGenerated ==
    [][/\ output' # output =>
             /\ generated_collage # NoCollage
             /\ output' = generated_collage
             /\ msgbox' = "Saved"
       /\ (msgbox' \in SaveBoxes /\ generated_collage = NoCollage) =>
             /\ msgbox' = "NoCollageToSave"
             /\ output' = output
       /\ msgbox' = "SaveError" =>
             /\ generated_collage' = generated_collage
             /\ generated_collage' # NoCollage
             /\ save_enabled'
             /\ UNCHANGED << folder_text, size_index, dimension,
                             dimension_label, final_size_label, create_text,
                             create_enabled, save_enabled, preview, worker,
                             workers, queue >>]_vars

\* Save Collage was clicked, enabled, with no collage generated.
C14_Witness ==
    /\ msgbox = "NoCollageToSave"
    /\ generated_collage = NoCollage
    /\ output = NoCollage

\* C15: self.dimension is never read before it has been assigned: the process
\* never aborts on the missing attribute.
C15_DimensionInitialised == ~(dimension = Unset /\ crashed)

\* C16: save_button enabled implies a collage is held, and save_button is
\* disabled for every build between its started and its finished slot.
C16_SaveOnlyWithCollage ==
    /\ save_enabled => generated_collage # NoCollage
    /\ \A w \in InFlight :
          (Len(workers[w].handled) >= 1 /\ ~crashed) => ~save_enabled

\* C17: once a collage is held, it is replaced only by the collage of a build
\* started later.
C17_LatestBuildWins ==
    [][(generated_collage # NoCollage /\ generated_collage' # generated_collage)
          => generated_collage' > generated_collage]_vars

\* the order in which the signals of one build are handled
HandledInOrder(wk) ==
    /\ Len(wk.handled) <= 3
    /\ Len(wk.handled) >= 1 => wk.handled[1] = "started"
    /\ Len(wk.handled) >= 2 =>
          wk.handled[2] = (IF wk.outcome = "ok" THEN "collage_created"
                           ELSE "error_occurred")
    /\ Len(wk.handled) >= 3 => wk.handled[3] = "finished"

\* C18: the slots of a build run in the order started, result, finished, and
\* when on_worker_finished runs for a build that succeeded, generated_collage
\* holds the collage of that build.
C18_ResultBeforeFinished ==
    [][/\ \A w \in WorkerIds : HandledInOrder(workers'[w])
       /\ (/\ queue # <<>>
           /\ Head(queue).sig = "finished"
           /\ queue' = Tail(queue)
           /\ workers[Head(queue).w].outcome = "ok") =>
              /\ save_enabled'
              /\ generated_collage' = Head(queue).w]_vars

====
